---- MODULE Spec2Model ----
(***************************************************************************)
(* Model of the tesseract-wasm OCR session engine.                         *)
(*                                                                         *)
(* Two layers are modelled, as in the source:                              *)
(*   - the JavaScript class OCREngine (src/unnamed/part_000), which owns   *)
(*     _modelLoaded and _imageLoaded and guards the queries;               *)
(*   - the C++ class OCREngine (src/src/lib.cpp), which owns               *)
(*     layout_analysis_done_ and ocr_done_ and drives the Tesseract and    *)
(*     Leptonica backend.                                                  *)
(* The backend is a test double: it keeps the current image, the page      *)
(* result the iterator walks, a log of the calls made on it during the     *)
(* current operation, and call counters for AnalyseLayout and Recognize.   *)
(* The JavaScript class has no getHOCR and no clearImage method; these two *)
(* operations are the exported C++ methods GetHOCR and ClearImage.         *)
(***************************************************************************)
EXTENDS Integers, Sequences, FiniteSets, TLC

VARIABLES
  modelLoaded,            \* OCREngine._modelLoaded (JavaScript)
  imageLoaded,            \* OCREngine._imageLoaded (JavaScript)
  layout_analysis_done_,  \* OCREngine::layout_analysis_done_ (C++)
  ocr_done_,              \* OCREngine::ocr_done_ (C++)
  pix,                    \* backend: the image Tesseract holds
  page_res,               \* backend: the page result GetIterator walks
  layoutRuns,             \* backend: AnalyseLayout calls since the image changed
  recogRuns,              \* backend: Recognize calls since the image changed
  initialized,            \* backend: an Init call has succeeded
  log,                    \* backend calls and notifications of the last operation
  call,                   \* the last operation and its arguments
  outcome,                \* "ok" or the message of the Error it threw
  ret,                    \* the value the last operation returned
  before,                 \* the flags as the last operation found them
  seenBoxes               \* the first getBoundingBoxes results for this image

vars == <<modelLoaded, imageLoaded, layout_analysis_done_, ocr_done_, pix,
          page_res, layoutRuns, recogRuns, initialized, log, call, outcome,
          ret, before, seenBoxes>>

----------------------------------------------------------------------------
(* Bounds of the model. *)

MaxWords == 2
MaxRuns == 2
MaxProgress == 1

(* Program constants. *)

StartOfLine == 1
EndOfLine == 2
Word == 0
Line == 1
BytesPerPixel == 4
UpDownMargin == 5
Complete == 100

(* Messages of the errors the JavaScript class throws. *)

ModelLoadError == "Text recognition model failed to load"
LengthMismatchError == "Image data length does not match width/height"
ZeroSizeError == "Image width or height is zero"
ImageDecodeError == "Failed to load image"
NoModelError == "No text recognition model loaded"
NoImageError == "No image loaded"
InvalidUnitError == "Invalid text unit"

\* The RangeError the JavaScript runtime throws for a typed array that does
\* not fit.
BufferRangeError == "RangeError"

InvalidImageError == {LengthMismatchError, ZeroSizeError}

----------------------------------------------------------------------------
(* Values. *)

Abs(x) == IF x < 0 THEN -x ELSE x

RECURSIVE Total(_)
Total(s) == IF s = <<>> THEN 0 ELSE Head(s) + Total(Tail(s))

\* A page is its text lines, each given by its number of words; the test
\* pages have at most MaxWords words.
Pages ==
  {p \in UNION {[1..n -> 1..MaxWords] : n \in 0..MaxWords} :
     Total(p) <= MaxWords}

\* An image is what the backend finds in it: the segmentation of the layout
\* pass and the segmentation after recognition.
NoPix == [present |-> FALSE, layout |-> <<>>, ocr |-> <<>>]

\* The test images: recognition keeps the words of the layout pass or
\* merges the words of each line into one.
Images ==
  {[present |-> TRUE, layout |-> p, ocr |-> p] : p \in Pages}
  \cup {[present |-> TRUE, layout |-> p, ocr |-> [i \in 1..Len(p) |-> 1]] :
          p \in Pages}

NoPage == [kind |-> "none", lines |-> <<>>, of |-> NoPix]

IntRect(left, right, top, bottom) ==
  [left |-> left, right |-> right, top |-> top, bottom |-> bottom]

TextRect == [rect |-> IntRect(0, 0, 0, 0), flags |-> 0,
             confidence |-> [num |-> 0, den |-> 1], text |-> <<>>]

Orientation == [rotation |-> 0, confidence |-> 0]

NoRet == [kind |-> "none", boxes |-> <<>>, text |-> <<>>,
          rotation |-> 0, confidence |-> 0]

Units == {"word", "line", "symbol"}

\* Widths and heights of the test images.
Dims == {0, 2}

\* Bytes of the test pixel data beyond width * height * BytesPerPixel.
Excess == {-1, 0, 1, 4}

\* What a C string read at the null pointer may hold: nothing, or stray
\* characters.
NullReads == {<<>>, <<0, 0>>}

\* Percentages the backend reports while it recognizes: non-decreasing.
ProgressValues == {50, 100}

ProgressRuns ==
  {s \in UNION {[1..n -> ProgressValues] : n \in 0..MaxProgress} :
     \A i \in 1..Len(s) : \A j \in 1..Len(s) : i <= j => s[i] <= s[j]}

\* Confidences pixOrientDetect reports on the test images.
Confs == {-10, 0, 1, 6, 10}

\* What pixOrientDetect does on the test images: it fails, or it reports a
\* pair of confidences (pairs with up_conf = 0 or left_conf 0 or 1).
Detections ==
  {[had_error |-> TRUE, up_conf |-> 0, left_conf |-> 0]}
  \cup {d \in [had_error : {FALSE}, up_conf : Confs, left_conf : Confs] :
          d.up_conf = 0 \/ d.left_conf \in {0, 1}}

Event(ev, val) == [ev |-> ev, val |-> val]

Bump(n) == IF n < MaxRuns THEN n + 1 ELSE n

\* OR of two flag sets built from the bits StartOfLine and EndOfLine.
FlagOr(flags, bit) == IF (flags \div bit) % 2 = 1 THEN flags ELSE flags + bit

----------------------------------------------------------------------------
(* The C++ object and its backend, as one record the methods transform. *)

Native ==
  [layout_analysis_done_ |-> layout_analysis_done_, ocr_done_ |-> ocr_done_,
   pix |-> pix, page_res |-> page_res, layoutRuns |-> layoutRuns,
   recogRuns |-> recogRuns, initialized |-> initialized, log |-> <<>>]

Logged(e, ev, val) == [e EXCEPT !.log = Append(@, Event(ev, val))]

----------------------------------------------------------------------------
(* The backend test double: Tesseract and Leptonica as the engine calls    *)
(* them.                                                                   *)

\* tesseract_->Init: nothing the engine reads back but the result code.
TessInit(e, model_ok) ==
  [Logged(e, "Init", IF model_ok THEN 0 ELSE 1) EXCEPT
     !.initialized = @ \/ model_ok]

\* tesseract_->SetImage: takes its own copy of the pix and drops old results.
TessSetImage(e, img) ==
  [Logged(e, "SetImage", 0) EXCEPT !.pix = img, !.page_res = NoPage,
                                   !.layoutRuns = 0, !.recogRuns = 0]

\* tesseract_->Clear: frees the image and the results.
TessClear(e) ==
  [Logged(e, "Clear", 0) EXCEPT !.pix = NoPix, !.page_res = NoPage,
                                !.layoutRuns = 0, !.recogRuns = 0]

\* tesseract_->AnalyseLayout: segments the current image; an empty page or a
\* missing image leaves no page result.
TessAnalyseLayout(e) ==
  [Logged(e, "AnalyseLayout", 0) EXCEPT
     !.layoutRuns = Bump(@),
     !.page_res = IF e.pix.present /\ e.pix.layout # <<>>
                  THEN [kind |-> "layout", lines |-> e.pix.layout,
                        of |-> e.pix]
                  ELSE NoPage]

\* ProgressMonitor::ProgressChanged
ProgressChanged(e, js_callback_, percentage) ==
  IF js_callback_ # "undefined" THEN Logged(e, "progress", percentage) ELSE e

RECURSIVE ProgressHandler(_, _, _, _)
\* ProgressMonitor::progress_handler, called by the backend for each report
\* with the percentage in monitor->progress.
ProgressHandler(e, js_callback_, reports, k) ==
  IF k > Len(reports) THEN e
  ELSE ProgressHandler(ProgressChanged(Logged(e, "progress_handler",
                                              reports[k]),
                                       js_callback_, reports[k]),
                       js_callback_, reports, k + 1)

\* tesseract_->Recognize(&monitor): segments and recognizes the current
\* image, reporting progress to the monitor; fails at once without an image.
\* Unlike AnalyseLayout it leaves a page result, with no regions, for an
\* empty page.
TessRecognize(e, js_callback_, reports) ==
  LET started == [Logged(e, "Recognize", 0) EXCEPT !.recogRuns = Bump(@)]
  IN IF ~e.pix.present THEN started
     ELSE [ProgressHandler(started, js_callback_, reports, 1) EXCEPT
             !.page_res = [kind |-> "ocr", lines |-> e.pix.ocr, of |-> e.pix]]

----------------------------------------------------------------------------
(* The result iterator. *)

AtEnd == [line |-> 0, word |-> 0]

RECURSIVE WordsFrom(_, _, _)
WordsFrom(lines, i, j) ==
  IF i > Len(lines) THEN <<>>
  ELSE IF j > lines[i] THEN WordsFrom(lines, i + 1, 1)
  ELSE <<[line |-> i, word |-> j]>> \o WordsFrom(lines, i, j + 1)

\* The regions iter->Next(level) steps through, in the backend's order.
Regions(lines, level) ==
  IF level = "RIL_TEXTLINE"
  THEN [i \in 1..Len(lines) |-> [line |-> i, word |-> 0]]
  ELSE WordsFrom(lines, 1, 1)

iterator_level_from_unit(unit) ==
  IF unit = Line THEN "RIL_TEXTLINE"
  ELSE IF unit = Word THEN "RIL_WORD"
  ELSE "RIL_SYMBOL"

\* iter->IsAtBeginningOf(RIL_TEXTLINE)
IsAtBeginningOfLine(pos) == pos # AtEnd /\ pos.word <= 1

\* iter->IsAtFinalElement(RIL_TEXTLINE, level)
IsAtFinalElementOfLine(lines, pos) ==
  pos = AtEnd \/ pos.word = 0 \/ pos.word = lines[pos.line]

\* iter->BoundingBox(level, ...): leaves the rect alone past the end. On the
\* test pages a line is 6 wide and 1 high and its words share it evenly.
BoundingBox(lines, pos) ==
  IF pos = AtEnd THEN IntRect(0, 0, 0, 0)
  ELSE IF pos.word = 0 THEN IntRect(0, 6, pos.line - 1, pos.line)
  ELSE IntRect((6 * (pos.word - 1)) \div lines[pos.line],
               (6 * pos.word) \div lines[pos.line],
               pos.line - 1, pos.line)

\* iter->GetUTF8Text(level): a new character array, a null pointer past the
\* end.
GetUTF8Text(pos) ==
  IF pos = AtEnd THEN [null |-> TRUE, chars |-> <<>>]
  ELSE [null |-> FALSE, chars |-> <<pos.line, pos.word>>]

\* string_from_raw: std::string(ptr) of a null pointer is undefined and
\* yields whatever characters, at_null, lie at address 0.
string_from_raw(ptr, at_null) == IF ptr.null THEN at_null ELSE ptr.chars

\* iter->Confidence(level): the test double's percentage for the region,
\* 0 past the end.
Confidence(pos) ==
  IF pos = AtEnd THEN 0 ELSE (50 * (pos.line + pos.word)) % 150

\* The loop body setting the line flags only when it also reads the text.
BoxAt_FlagsOnlyWithText(page, unit, with_text, pos, at_null) ==
  LET scored == IF with_text
                THEN [TextRect EXCEPT
                        !.confidence = [num |-> Confidence(pos), den |-> 100],
                        !.text = string_from_raw(GetUTF8Text(pos), at_null)]
                ELSE TextRect
      started == IF with_text /\ unit < Line /\ IsAtBeginningOfLine(pos)
                 THEN [scored EXCEPT !.flags = FlagOr(@, StartOfLine)]
                 ELSE scored
      ended == IF with_text /\ unit < Line
                  /\ IsAtFinalElementOfLine(page.lines, pos)
               THEN [started EXCEPT !.flags = FlagOr(@, EndOfLine)]
               ELSE started
  IN [ended EXCEPT !.rect = BoundingBox(page.lines, pos)]

\* The loop body storing the backend's percentage as it comes.
BoxAt_UnscaledConfidence(page, unit, with_text, pos, at_null) ==
  LET scored == IF with_text
                THEN [TextRect EXCEPT
                        !.confidence = [num |-> Confidence(pos), den |-> 1],
                        !.text = string_from_raw(GetUTF8Text(pos), at_null)]
                ELSE TextRect
      started == IF unit < Line /\ IsAtBeginningOfLine(pos)
                 THEN [scored EXCEPT !.flags = FlagOr(@, StartOfLine)]
                 ELSE scored
      ended == IF unit < Line /\ IsAtFinalElementOfLine(page.lines, pos)
               THEN [started EXCEPT !.flags = FlagOr(@, EndOfLine)]
               ELSE started
  IN [ended EXCEPT !.rect = BoundingBox(page.lines, pos)]

\* The body of the do-while loop of GetBoxes, for the region at pos.
BoxAt(page, unit, with_text, pos, at_null) ==
  LET scored == IF with_text
                THEN [TextRect EXCEPT
                        !.confidence = [num |-> Confidence(pos), den |-> 100],
                        !.text = string_from_raw(GetUTF8Text(pos), at_null)]
                ELSE TextRect
      started == IF unit < Line /\ IsAtBeginningOfLine(pos)
                 THEN [scored EXCEPT !.flags = FlagOr(@, StartOfLine)]
                 ELSE scored
      ended == IF unit < Line /\ IsAtFinalElementOfLine(page.lines, pos)
               THEN [started EXCEPT !.flags = FlagOr(@, EndOfLine)]
               ELSE started
  IN [ended EXCEPT !.rect = BoundingBox(page.lines, pos)]

RECURSIVE BoxesFrom(_, _, _, _, _, _)
\* do { ... } while (iter->Next(level)), from the k-th region on.
BoxesFrom(page, unit, with_text, regions, k, at_null) ==
  <<BoxAt(page, unit, with_text,
          IF k <= Len(regions) THEN regions[k] ELSE AtEnd, at_null)>>
  \o (IF k < Len(regions)
      THEN BoxesFrom(page, unit, with_text, regions, k + 1, at_null)
      ELSE <<>>)

\* OCREngine::GetBoxes
GetBoxes(e, unit, with_text, at_null) ==
  LET walked == Logged(e, "GetIterator", 0)
  IN [e |-> walked,
      value |-> IF e.page_res.kind = "none" THEN <<>>
                ELSE BoxesFrom(e.page_res, unit, with_text,
                               Regions(e.page_res.lines,
                                       iterator_level_from_unit(unit)),
                               1, at_null)]

\* tesseract_->GetUTF8Text(): the text of every word of the page.
PageText(page) ==
  LET words == WordsFrom(page.lines, 1, 1)
  IN [k \in 1..Len(words) |-> words[k].line]

\* tesseract_->GetUTF8Text() and tesseract_->GetHOCRText(0): a new character
\* array, a null pointer when there is no page result because recognition
\* failed.
TessText(page) ==
  IF page.kind = "none" THEN [null |-> TRUE, chars |-> <<>>]
  ELSE [null |-> FALSE, chars |-> PageText(page)]

----------------------------------------------------------------------------
(* The C++ class OCREngine (src/src/lib.cpp). A method yields the object   *)
(* after the call and the value it returns.                                *)

HocrHeader == -1
HocrFooter == -2

\* LoadModel invalidating the cached analysis as an image change does.
LoadModel_InvalidatesCache(e, model_ok) ==
  [e |-> [TessInit(e, model_ok) EXCEPT !.layout_analysis_done_ = FALSE,
                                       !.ocr_done_ = FALSE],
   value |-> IF ~model_ok THEN "Failed to load training data" ELSE ""]

\* OCREngine::LoadModel; an OCRResult is a std::string, empty on success.
LoadModel(e, model_ok) ==
  [e |-> TessInit(e, model_ok),
   value |-> IF ~model_ok THEN "Failed to load training data" ELSE ""]

\* OCREngine::LoadImage
LoadImage(e, img, readable) ==
  IF ~readable
  THEN [e |-> Logged(e, "pixReadMem", 1), value |-> "pixReadMem failed"]
  ELSE LET read == Logged(e, "pixReadMem", 0)
           inited == Logged(read, "InitForAnalysePage", 0)
           set == [TessSetImage(inited, img) EXCEPT
                     !.layout_analysis_done_ = FALSE, !.ocr_done_ = FALSE]
       IN [e |-> Logged(set, "pixDestroy", 0), value |-> ""]

\* ClearImage forgetting to reset ocr_done_.
ClearImage_KeepsOcrDone(e) ==
  [TessClear(e) EXCEPT !.layout_analysis_done_ = FALSE]

\* OCREngine::ClearImage
ClearImage(e) ==
  [TessClear(e) EXCEPT !.layout_analysis_done_ = FALSE, !.ocr_done_ = FALSE]

\* GetBoundingBoxes analysing the layout on every call.
GetBoundingBoxes_AlwaysAnalyses(e, unit) ==
  GetBoxes([TessAnalyseLayout(e) EXCEPT !.layout_analysis_done_ = TRUE],
           unit, FALSE, <<>>)

\* OCREngine::GetBoundingBoxes
GetBoundingBoxes(e, unit) ==
  GetBoxes(IF ~e.layout_analysis_done_
           THEN [TessAnalyseLayout(e) EXCEPT !.layout_analysis_done_ = TRUE]
           ELSE e,
           unit, FALSE, <<>>)

\* DoOCR recognizing on every call.
DoOCR_AlwaysRecognizes(e, progress_callback, reports) ==
  ProgressChanged([TessRecognize(e, progress_callback, reports) EXCEPT
                     !.layout_analysis_done_ = TRUE, !.ocr_done_ = TRUE],
                  progress_callback, Complete)

\* DoOCR reporting completion only when it ran the recognizer.
DoOCR_SilentWhenCached(e, progress_callback, reports) ==
  IF ~e.ocr_done_
  THEN ProgressChanged([TessRecognize(e, progress_callback, reports) EXCEPT
                          !.layout_analysis_done_ = TRUE, !.ocr_done_ = TRUE],
                       progress_callback, Complete)
  ELSE e

\* DoOCR reporting completion unless the last notification was 100 already.
DoOCR_CompletesOnce(e, progress_callback, reports) ==
  LET done == IF ~e.ocr_done_
              THEN [TessRecognize(e, progress_callback, reports) EXCEPT
                      !.layout_analysis_done_ = TRUE, !.ocr_done_ = TRUE]
              ELSE e
  IN IF done.log # <<>>
        /\ done.log[Len(done.log)] = Event("progress", Complete)
     THEN done
     ELSE ProgressChanged(done, progress_callback, Complete)

\* OCREngine::DoOCR
DoOCR(e, progress_callback, reports) ==
  ProgressChanged(IF ~e.ocr_done_
                  THEN [TessRecognize(e, progress_callback, reports) EXCEPT
                          !.layout_analysis_done_ = TRUE, !.ocr_done_ = TRUE]
                  ELSE e,
                  progress_callback, Complete)

\* OCREngine::GetTextBoxes
GetTextBoxes(e, unit, progress_callback, reports, at_null) ==
  GetBoxes(DoOCR(e, progress_callback, reports), unit, TRUE, at_null)

\* OCREngine::GetText
GetText(e, progress_callback, reports, at_null) ==
  LET done == DoOCR(e, progress_callback, reports)
  IN [e |-> Logged(done, "GetUTF8Text", 0),
      value |-> string_from_raw(TessText(done.page_res), at_null)]

\* OCREngine::GetHOCR: the backend's body between the fixed header and footer.
GetHOCR(e, progress_callback, reports, at_null) ==
  LET done == DoOCR(e, progress_callback, reports)
      hocr_body == string_from_raw(TessText(done.page_res), at_null)
  IN [e |-> Logged(done, "GetHOCRText", 0),
      value |-> <<HocrHeader>> \o hocr_body \o <<HocrFooter>>]

\* The decision rule with a margin that is reached, not exceeded.
Rotation_AtLeastMargin(up_conf, left_conf) ==
  IF Abs(up_conf) - Abs(left_conf) >= UpDownMargin
  THEN (IF up_conf > 0 THEN 0 ELSE 180)
  ELSE (IF left_conf < 0 THEN 90 ELSE 270)

\* The decision rule of OCREngine::GetOrientation.
Rotation(up_conf, left_conf) ==
  IF Abs(up_conf) - Abs(left_conf) > UpDownMargin
  THEN (IF up_conf > 0 THEN 0 ELSE 180)
  ELSE (IF left_conf < 0 THEN 90 ELSE 270)

\* pixOrientDetect on the thresholded image of p: an error without an
\* image, else what the detector does on this image.
pixOrientDetect(p, det) ==
  IF ~p.present THEN [had_error |-> TRUE, up_conf |-> 0, left_conf |-> 0]
  ELSE det

\* GetOrientation returning on a detector error before it destroys the Pix.
GetOrientation_KeepsPixOnError(e, det) ==
  LET thresholded == Logged(e, "GetThresholdedImage",
                            IF e.pix.present THEN 0 ELSE 1)
      found == pixOrientDetect(e.pix, det)
      detected == Logged(thresholded, "pixOrientDetect",
                         IF found.had_error THEN 1 ELSE 0)
  IN IF found.had_error THEN [e |-> detected, value |-> Orientation]
     ELSE [e |-> Logged(detected, "pixDestroy", 0),
           value |-> [rotation |-> Rotation(found.up_conf, found.left_conf),
                      confidence |-> 1]]

\* GetOrientation marking the layout as analysed.
GetOrientation_MarksLayoutDone(e, det) ==
  LET thresholded == Logged(e, "GetThresholdedImage",
                            IF e.pix.present THEN 0 ELSE 1)
      found == pixOrientDetect(e.pix, det)
      detected == Logged(thresholded, "pixOrientDetect",
                         IF found.had_error THEN 1 ELSE 0)
      destroyed == Logged(detected, "pixDestroy", 0)
  IN [e |-> [destroyed EXCEPT !.layout_analysis_done_ = TRUE],
      value |-> IF found.had_error THEN Orientation
                ELSE [rotation |-> Rotation(found.up_conf, found.left_conf),
                      confidence |-> 1]]

\* OCREngine::GetOrientation; GetThresholdedImage yields a new Pix of the
\* current image, none (logged as 1) without an image.
GetOrientation(e, det) ==
  LET thresholded == Logged(e, "GetThresholdedImage",
                            IF e.pix.present THEN 0 ELSE 1)
      found == pixOrientDetect(e.pix, det)
      detected == Logged(thresholded, "pixOrientDetect",
                         IF found.had_error THEN 1 ELSE 0)
      destroyed == Logged(detected, "pixDestroy", 0)
  IN [e |-> destroyed,
      value |-> IF found.had_error THEN Orientation
                ELSE [rotation |-> Rotation(found.up_conf, found.left_conf),
                      confidence |-> 1]]

----------------------------------------------------------------------------
(* The JavaScript class OCREngine (src/unnamed/part_000).                  *)

\* An operation and its arguments; ok tells whether the backend accepts the
\* model bytes (loadModel) or the pixel data (loadImage) or detects an
\* orientation (getOrientation), up_conf and left_conf what it detects.
NoCall == [op |-> "new", unit |-> "", width |-> 0, height |-> 0,
           length |-> 0, ok |-> TRUE, callback |-> "undefined",
           up_conf |-> 0, left_conf |-> 0]

\* Per unit and per kind of page result, the first getBoundingBoxes result
\* since the image changed.
NoneSeen ==
  [u \in {Word, Line} |->
     [k \in {"none", "layout", "ocr"} |-> [seen |-> FALSE, boxes |-> <<>>]]]

Seen(seen, unit, kind, boxes) ==
  IF seen[unit][kind].seen THEN seen
  ELSE [seen EXCEPT ![unit][kind] = [seen |-> TRUE, boxes |-> boxes]]

\* result.error, read from the value a C++ method returning OCRResult hands
\* to JavaScript: a std::string arrives as a string, which has no such
\* property.
ResultError(result) == "undefined"

\* JavaScript truthiness of a string or undefined.
Truthy(v) == v \notin {"undefined", ""}

\* OCREngine._checkImageLoaded: the message thrown, or "ok".
checkImageLoaded == IF ~imageLoaded THEN NoImageError ELSE "ok"

\* OCREngine._checkModelLoaded: the message thrown, or "ok".
checkModelLoaded == IF ~modelLoaded THEN NoModelError ELSE "ok"

\* OCREngine._textUnitForUnit, where it returns.
textUnitForUnit(unit) == IF unit = "word" THEN Word ELSE Line

\* _textUnitForUnit letting every unit through.
checkTextUnit_AllowsAny(unit) == "ok"

\* OCREngine._textUnitForUnit: the message thrown, or "ok".
checkTextUnit(unit) ==
  IF unit \in {"word", "line"} THEN "ok" ELSE InvalidUnitError

\* The arrow function getTextBoxes and getText pass as progress callback.
ProgressArrow == "function"

\* What an operation finds when it is called.
Snapshot ==
  [modelLoaded |-> modelLoaded, imageLoaded |-> imageLoaded,
   layout_analysis_done_ |-> layout_analysis_done_, ocr_done_ |-> ocr_done_,
   image |-> pix.present, model |-> initialized]

\* The C++ object and the backend after a call that reached them.
Commit(e) ==
  /\ layout_analysis_done_' = e.layout_analysis_done_
  /\ ocr_done_' = e.ocr_done_
  /\ pix' = e.pix
  /\ page_res' = e.page_res
  /\ layoutRuns' = e.layoutRuns
  /\ recogRuns' = e.recogRuns
  /\ initialized' = e.initialized
  /\ log' = e.log

\* An Error thrown before the C++ object is reached.
Throw(message) ==
  /\ outcome' = message
  /\ ret' = NoRet
  /\ log' = <<>>
  /\ UNCHANGED <<modelLoaded, imageLoaded, layout_analysis_done_, ocr_done_,
                 pix, page_res, layoutRuns, recogRuns, initialized,
                 seenBoxes>>

\* new OCREngine(tessLib)
Init ==
  /\ modelLoaded = FALSE
  /\ imageLoaded = FALSE
  /\ layout_analysis_done_ = FALSE
  /\ ocr_done_ = FALSE
  /\ pix = NoPix
  /\ page_res = NoPage
  /\ layoutRuns = 0
  /\ recogRuns = 0
  /\ initialized = FALSE
  /\ log = <<>>
  /\ call = NoCall
  /\ outcome = "ok"
  /\ ret = NoRet
  /\ seenBoxes = NoneSeen
  /\ before = Snapshot

\* OCREngine.loadModel
loadModel(model_ok) ==
  LET result == LoadModel(Native, model_ok)
  IN /\ before' = Snapshot
     /\ call' = [NoCall EXCEPT !.op = "loadModel", !.ok = model_ok]
     /\ Commit(result.e)
     /\ ret' = NoRet
     /\ UNCHANGED <<imageLoaded, seenBoxes>>
     /\ IF Truthy(ResultError(result.value))
        THEN outcome' = ModelLoadError /\ UNCHANGED modelLoaded
        ELSE outcome' = "ok" /\ modelLoaded' = TRUE

\* The checks of loadImage letting a zero width or height through.
checkImageData_AllowsZero(width, height, length) ==
  IF length < width * height * BytesPerPixel THEN LengthMismatchError
  ELSE IF width < 0 \/ height < 0 THEN ZeroSizeError
  ELSE "ok"

\* The checks OCREngine.loadImage makes on its argument: the message thrown,
\* or "ok".
checkImageData(width, height, length) ==
  IF length < width * height * BytesPerPixel THEN LengthMismatchError
  ELSE IF width <= 0 \/ height <= 0 THEN ZeroSizeError
  ELSE "ok"

\* engineImageBuf.set(new Uint32Array(imageData.data.buffer)): the message
\* thrown, or "ok". The pixel data own their buffer; a Uint32Array over a
\* buffer needs a byte length that is a multiple of 4, and set() a source no
\* longer than engineImageBuf, the width * height pixels of the Image.
setImageData(width, height, length) ==
  IF length % BytesPerPixel # 0 \/ length \div BytesPerPixel > width * height
  THEN BufferRangeError
  ELSE "ok"

\* loadImage allocating the transfer image before it clears the engine.
loadImage_AllocatesFirst(width, height, length) ==
  /\ before' = Snapshot
  /\ call' = [NoCall EXCEPT !.op = "loadImage", !.width = width,
                            !.height = height, !.length = length]
  /\ checkImageData(width, height, length) = "ok"
  /\ setImageData(width, height, length) = "ok"
  /\ \E img \in Images :
       LET engineImage == Logged(Native, "Image.new", 0)
           cleared == ClearImage(engineImage)
           result == LoadImage(cleared, img, TRUE)
       IN /\ Commit(Logged(result.e, "Image.delete", 0))
          /\ outcome' = "ok" /\ imageLoaded' = TRUE
          /\ ret' = NoRet
          /\ seenBoxes' = NoneSeen
          /\ UNCHANGED modelLoaded

\* OCREngine.loadImage; img is what the backend finds in the pixels and
\* readable whether pixReadMem accepts them.
loadImage(width, height, length) ==
  /\ before' = Snapshot
  /\ IF checkImageData(width, height, length) # "ok"
     THEN /\ call' = [NoCall EXCEPT !.op = "loadImage", !.width = width,
                                    !.height = height, !.length = length]
          /\ Throw(checkImageData(width, height, length))
     ELSE IF setImageData(width, height, length) # "ok"
     THEN /\ call' = [NoCall EXCEPT !.op = "loadImage", !.width = width,
                                    !.height = height, !.length = length]
          /\ Commit(Logged(ClearImage(Native), "Image.new", 0))
          /\ outcome' = setImageData(width, height, length)
          /\ ret' = NoRet
          /\ seenBoxes' = NoneSeen
          /\ UNCHANGED <<modelLoaded, imageLoaded>>
     ELSE \E img \in Images, readable \in BOOLEAN :
            LET cleared == ClearImage(Native)
                engineImage == Logged(cleared, "Image.new", 0)
                result == LoadImage(engineImage, img, readable)
                deleted == Logged(result.e, "Image.delete", 0)
            IN /\ call' = [NoCall EXCEPT !.op = "loadImage", !.width = width,
                                         !.height = height, !.length = length,
                                         !.ok = readable]
               /\ Commit(deleted)
               /\ ret' = NoRet
               /\ seenBoxes' = NoneSeen
               /\ UNCHANGED modelLoaded
               /\ IF Truthy(ResultError(result.value))
                  THEN outcome' = ImageDecodeError /\ UNCHANGED imageLoaded
                  ELSE outcome' = "ok" /\ imageLoaded' = TRUE

\* OCREngine::ClearImage, exported as clearImage
clearImage ==
  /\ before' = Snapshot
  /\ call' = [NoCall EXCEPT !.op = "clearImage"]
  /\ Commit(ClearImage(Native))
  /\ outcome' = "ok"
  /\ ret' = NoRet
  /\ seenBoxes' = NoneSeen
  /\ UNCHANGED <<modelLoaded, imageLoaded>>

\* getBoundingBoxes asking for a model as the text queries do.
getBoundingBoxes_RequiresModel(unit) ==
  /\ before' = Snapshot
  /\ call' = [NoCall EXCEPT !.op = "getBoundingBoxes", !.unit = unit]
  /\ IF checkImageLoaded # "ok" THEN Throw(checkImageLoaded)
     ELSE IF checkModelLoaded # "ok" THEN Throw(checkModelLoaded)
     ELSE IF checkTextUnit(unit) # "ok" THEN Throw(checkTextUnit(unit))
     ELSE LET result == GetBoundingBoxes(Native, textUnitForUnit(unit))
          IN /\ Commit(result.e)
             /\ outcome' = "ok"
             /\ ret' = [NoRet EXCEPT !.kind = "boxes", !.boxes = result.value]
             /\ seenBoxes' = Seen(seenBoxes, textUnitForUnit(unit),
                                   result.e.page_res.kind, result.value)
             /\ UNCHANGED <<modelLoaded, imageLoaded>>

\* OCREngine.getBoundingBoxes
getBoundingBoxes(unit) ==
  /\ before' = Snapshot
  /\ call' = [NoCall EXCEPT !.op = "getBoundingBoxes", !.unit = unit]
  /\ IF checkImageLoaded # "ok" THEN Throw(checkImageLoaded)
     ELSE IF checkTextUnit(unit) # "ok" THEN Throw(checkTextUnit(unit))
     ELSE LET result == GetBoundingBoxes(Native, textUnitForUnit(unit))
          IN /\ Commit(result.e)
             /\ outcome' = "ok"
             /\ ret' = [NoRet EXCEPT !.kind = "boxes", !.boxes = result.value]
             /\ seenBoxes' = Seen(seenBoxes, textUnitForUnit(unit),
                                   result.e.page_res.kind, result.value)
             /\ UNCHANGED <<modelLoaded, imageLoaded>>

\* OCREngine.getTextBoxes
getTextBoxes(unit, reports, at_null) ==
  /\ before' = Snapshot
  /\ call' = [NoCall EXCEPT !.op = "getTextBoxes", !.unit = unit,
                            !.callback = ProgressArrow]
  /\ IF checkImageLoaded # "ok" THEN Throw(checkImageLoaded)
     ELSE IF checkModelLoaded # "ok" THEN Throw(checkModelLoaded)
     ELSE IF checkTextUnit(unit) # "ok" THEN Throw(checkTextUnit(unit))
     ELSE LET result == GetTextBoxes(Native, textUnitForUnit(unit),
                                     ProgressArrow, reports, at_null)
          IN /\ Commit(result.e)
             /\ outcome' = "ok"
             /\ ret' = [NoRet EXCEPT !.kind = "boxes", !.boxes = result.value]
             /\ UNCHANGED <<modelLoaded, imageLoaded, seenBoxes>>

\* OCREngine.getText
getText(reports, at_null) ==
  /\ before' = Snapshot
  /\ call' = [NoCall EXCEPT !.op = "getText", !.callback = ProgressArrow]
  /\ IF checkImageLoaded # "ok" THEN Throw(checkImageLoaded)
     ELSE IF checkModelLoaded # "ok" THEN Throw(checkModelLoaded)
     ELSE LET result == GetText(Native, ProgressArrow, reports, at_null)
          IN /\ Commit(result.e)
             /\ outcome' = "ok"
             /\ ret' = [NoRet EXCEPT !.kind = "text", !.text = result.value]
             /\ UNCHANGED <<modelLoaded, imageLoaded, seenBoxes>>

\* OCREngine::GetHOCR, exported as getHOCR
getHOCR(progress_callback, reports, at_null) ==
  LET result == GetHOCR(Native, progress_callback, reports, at_null)
  IN /\ before' = Snapshot
     /\ call' = [NoCall EXCEPT !.op = "getHOCR",
                               !.callback = progress_callback]
     /\ Commit(result.e)
     /\ outcome' = "ok"
     /\ ret' = [NoRet EXCEPT !.kind = "hocr", !.text = result.value]
     /\ UNCHANGED <<modelLoaded, imageLoaded, seenBoxes>>

\* OCREngine.getOrientation
getOrientation(det) ==
  /\ before' = Snapshot
  /\ call' = [NoCall EXCEPT
                !.op = "getOrientation",
                !.ok = ~pixOrientDetect(pix, det).had_error,
                !.up_conf = pixOrientDetect(pix, det).up_conf,
                !.left_conf = pixOrientDetect(pix, det).left_conf]
  /\ IF checkImageLoaded # "ok" THEN Throw(checkImageLoaded)
     ELSE LET result == GetOrientation(Native, det)
          IN /\ Commit(result.e)
             /\ outcome' = "ok"
             /\ ret' = [NoRet EXCEPT !.kind = "orientation",
                                     !.rotation = result.value.rotation,
                                     !.confidence = result.value.confidence]
             /\ UNCHANGED <<modelLoaded, imageLoaded, seenBoxes>>

Next ==
  \/ \E model_ok \in BOOLEAN : loadModel(model_ok)
  \/ \E width \in Dims, height \in Dims, excess \in Excess :
       /\ width * height * BytesPerPixel + excess >= 0
       /\ loadImage(width, height, width * height * BytesPerPixel + excess)
  \/ clearImage
  \/ \E unit \in Units : getBoundingBoxes(unit)
  \/ \E unit \in Units, reports \in ProgressRuns, at_null \in NullReads :
       getTextBoxes(unit, reports, at_null)
  \/ \E reports \in ProgressRuns, at_null \in NullReads :
       getText(reports, at_null)
  \/ \E progress_callback \in {"function", "undefined"},
        reports \in ProgressRuns, at_null \in NullReads :
       getHOCR(progress_callback, reports, at_null)
  \/ \E det \in Detections : getOrientation(det)

Spec == Init /\ [][Next]_vars

----------------------------------------------------------------------------
(* Properties. They speak of the last operation: call, outcome, ret and    *)
(* log are what it was, threw, returned and did, before what it found.     *)

Queries ==
  {"getBoundingBoxes", "getTextBoxes", "getText", "getHOCR", "getOrientation"}

TextQueries == {"getTextBoxes", "getText", "getHOCR"}

\* How often the last operation made the backend call ev.
Count(ev) == Cardinality({k \in 1..Len(log) : log[k].ev = ev})

\* The percentages the last operation delivered to the progress callback.
Delivered ==
  LET notes == SelectSeq(log, LAMBDA x : x.ev = "progress")
  IN [k \in 1..Len(notes) |-> notes[k].val]

\* The last operation changed the image: clearImage, or a loadImage that did
\* not throw.
ImageChange ==
  call.op = "clearImage" \/ (call.op = "loadImage" /\ outcome = "ok")

\* C1: a query issued while the backend holds no image (no LoadImage has
\* succeeded since the engine was created or since the last ClearImage) fails
\* with NoImageError and runs neither the layout pass nor the recognizer.
C1_QueryWithoutImageFails ==
  (call.op \in Queries /\ ~before.image)
    => /\ outcome = NoImageError
       /\ Count("AnalyseLayout") = 0
       /\ Count("Recognize") = 0

\* C2: a text-producing query issued with an image loaded while no loadModel
\* has succeeded fails with NoModelError, does not run the recognizer and
\* leaves layout_analysis_done_ and ocr_done_ as they were.
C2_TextQueryWithoutModelFails ==
  (call.op \in TextQueries /\ before.image /\ ~before.model)
    => /\ outcome = NoModelError
       /\ Count("Recognize") = 0
       /\ layout_analysis_done_ = before.layout_analysis_done_
       /\ ocr_done_ = before.ocr_done_

\* The part of C3 about the layout pass: between two image changes
\* AnalyseLayout runs at most once; a getBoundingBoxes that finds
\* layout_analysis_done_ false runs it once and sets the flag, one that finds
\* it true, or that follows recognition, does not run it.
LayoutPassOnce ==
  /\ layoutRuns <= 1
  /\ (call.op = "getBoundingBoxes" /\ outcome = "ok")
       => /\ ~before.layout_analysis_done_
               => Count("AnalyseLayout") = 1 /\ layout_analysis_done_
          /\ before.layout_analysis_done_ => Count("AnalyseLayout") = 0
          /\ before.ocr_done_ => Count("AnalyseLayout") = 0

\* C3 as stated: the layout pass runs at most once between two image changes
\* and every later getBoundingBoxes returns what the first one returned for
\* that unit.
C3_LayoutOnceAndSameBoxes ==
  /\ LayoutPassOnce
  /\ (call.op = "getBoundingBoxes" /\ outcome = "ok")
       => \A k \in {"none", "layout", "ocr"} :
            seenBoxes[textUnitForUnit(call.unit)][k].seen
              => ret.boxes = seenBoxes[textUnitForUnit(call.unit)][k].boxes

\* C3 as amended: the layout pass runs at most once between two image
\* changes, and a later getBoundingBoxes returns what the first one returned
\* for that unit as long as no recognition has replaced the page result in
\* between (the first result over the same kind of page result).
C3_LayoutOnceAndSameBoxesUntilOcr ==
  /\ LayoutPassOnce
  /\ (call.op = "getBoundingBoxes" /\ outcome = "ok")
       => /\ seenBoxes[textUnitForUnit(call.unit)][page_res.kind].seen
          /\ ret.boxes =
               seenBoxes[textUnitForUnit(call.unit)][page_res.kind].boxes

\* Witness of C3: a second word-level getBoundingBoxes over the layout of a
\* page with two words, served without running the layout pass.
C3_Witness ==
  /\ call.op = "getBoundingBoxes" /\ call.unit = "word" /\ outcome = "ok"
  /\ before.layout_analysis_done_ /\ ~before.ocr_done_
  /\ Count("AnalyseLayout") = 0
  /\ layoutRuns = 1
  /\ Len(ret.boxes) = 2

\* C4: between two image changes Recognize runs at most once: a successful
\* text-producing query that finds ocr_done_ false runs it exactly once, one
\* that finds it true does not run it.
C4_RecognizeOnce ==
  /\ recogRuns <= 1
  /\ (call.op \in TextQueries /\ outcome = "ok")
       => /\ ~before.ocr_done_ => Count("Recognize") = 1 /\ ocr_done_
          /\ before.ocr_done_ => Count("Recognize") = 0

\* Witness of C4: a getText served from the recognition an earlier query ran.
C4_Witness ==
  /\ call.op = "getText" /\ outcome = "ok"
  /\ before.ocr_done_ /\ before.image
  /\ Count("Recognize") = 0
  /\ recogRuns = 1

\* C5: after clearImage or a loadImage that did not throw, in whatever state
\* it was issued, layout_analysis_done_ and ocr_done_ are false and the
\* backend holds no page result and has run nothing for the new image; a
\* successful getBoundingBoxes that finds layout_analysis_done_ false runs the
\* layout pass and a successful text-producing query that finds ocr_done_
\* false runs the recognizer; a page result is always one of the current
\* image.
C5_ImageChangeInvalidates ==
  /\ ImageChange
       => /\ ~layout_analysis_done_ /\ ~ocr_done_
          /\ page_res = NoPage
          /\ layoutRuns = 0 /\ recogRuns = 0
  /\ (call.op = "getBoundingBoxes" /\ outcome = "ok"
      /\ ~before.layout_analysis_done_) => Count("AnalyseLayout") = 1
  /\ (call.op \in TextQueries /\ outcome = "ok" /\ ~before.ocr_done_)
       => Count("Recognize") = 1
  /\ page_res.kind # "none" => page_res.of = pix

\* Witness of C5: clearImage issued with recognition results cached.
C5_Witness ==
  /\ call.op = "clearImage"
  /\ before.ocr_done_ /\ before.layout_analysis_done_ /\ before.image
  /\ ~ocr_done_ /\ ~layout_analysis_done_

\* C6: a successful text-producing query given a progress callback delivers
\* notifications of which the last is 100, delivered after every Recognize
\* call of the query and before the result is read from the backend, whether
\* or not the query ran the recognizer.
C6_FinalProgress ==
  (call.op \in TextQueries /\ outcome = "ok" /\ call.callback # "undefined")
    => /\ Delivered # <<>>
       /\ Delivered[Len(Delivered)] = Complete
       /\ \E k \in 1..Len(log) :
            /\ log[k] = Event("progress", Complete)
            /\ \A j \in 1..Len(log) :
                 /\ log[j].ev = "Recognize" => j < k
                 /\ log[j].ev = "progress" => j <= k
                 /\ log[j].ev \in {"GetIterator", "GetUTF8Text", "GetHOCRText"}
                      => k < j

\* Witness of C6: a getTextBoxes served from cache that delivers exactly 100.
C6_Witness ==
  /\ call.op = "getTextBoxes" /\ outcome = "ok"
  /\ before.ocr_done_
  /\ Count("Recognize") = 0
  /\ Delivered = <<Complete>>

\* C7: a loadImage that fails, by throwing or because the backend rejects the
\* pixel data, leaves imageLoaded, layout_analysis_done_ and ocr_done_ as they
\* were.
C7_FailedLoadImageChangesNothing ==
  (call.op = "loadImage" /\ (outcome # "ok" \/ ~call.ok))
    => /\ imageLoaded = before.imageLoaded
       /\ layout_analysis_done_ = before.layout_analysis_done_
       /\ ocr_done_ = before.ocr_done_

\* C8: a loadModel whose backend initialization fails throws ModelLoadError
\* and leaves modelLoaded as it was.
C8_FailedLoadModelReported ==
  (call.op = "loadModel" /\ ~call.ok)
    => outcome = ModelLoadError /\ modelLoaded = before.modelLoaded

\* C9: loadImage with width 0, height 0 or fewer than width*height*4 bytes
\* fails with InvalidImageError before anything is called on the backend, and
\* imageLoaded stays false if it was false.
C9_InvalidImageRejected ==
  (call.op = "loadImage"
   /\ (call.width = 0 \/ call.height = 0
       \/ call.length < call.width * call.height * BytesPerPixel))
    => /\ outcome \in InvalidImageError
       /\ ~before.imageLoaded => ~imageLoaded
       /\ log = <<>>
       /\ pix.present = before.image
       /\ layout_analysis_done_ = before.layout_analysis_done_
       /\ ocr_done_ = before.ocr_done_

\* Witness of C9: an undersized buffer rejected on an engine without image.
C9_Witness ==
  /\ call.op = "loadImage"
  /\ call.width > 0 /\ call.height > 0
  /\ call.length = call.width * call.height * BytesPerPixel - 1
  /\ outcome = LengthMismatchError
  /\ ~imageLoaded

\* C10: clearImage does not fail and leaves imageLoaded,
\* layout_analysis_done_ and ocr_done_ false and modelLoaded as it was.
C10_ClearImageResetsAll ==
  call.op = "clearImage"
    => /\ outcome = "ok"
       /\ ~imageLoaded /\ ~layout_analysis_done_ /\ ~ocr_done_
       /\ modelLoaded = before.modelLoaded

RECURSIVE Alive(_)
\* The image buffers alive after the first k backend calls of the last
\* operation: the image the backend held when the operation began
\* ("previous"), the transfer Image of the JavaScript class ("engineImage"),
\* a Pix a C++ method holds ("pix") and the backend's copy of a newly set
\* image ("copy").
Alive(k) ==
  IF k = 0 THEN (IF before.image THEN {"previous"} ELSE {})
  ELSE LET s == Alive(k - 1)
           x == log[k]
       IN CASE x.ev = "Clear" -> s \ {"previous", "copy"}
            [] x.ev = "Image.new" -> s \cup {"engineImage"}
            [] x.ev = "Image.delete" -> s \ {"engineImage"}
            [] x.ev = "pixReadMem" /\ x.val = 0 -> s \cup {"pix"}
            [] x.ev = "GetThresholdedImage" /\ x.val = 0 -> s \cup {"pix"}
            [] x.ev = "pixDestroy" -> s \ {"pix"}
            [] x.ev = "SetImage" -> (s \ {"previous"}) \cup {"copy"}
            [] OTHER -> s

\* C11: during a loadImage the image the backend held before the call is
\* never alive together with a buffer of the new image: Clear comes before
\* the transfer Image is allocated, the Pix is read and the copy is set.
C11_PreviousReleasedFirst ==
  call.op = "loadImage"
    => \A k \in 0..Len(log) :
         "previous" \in Alive(k) => Alive(k) = {"previous"}

\* Witness of C11: a loadImage, issued while the backend holds an image, that
\* cleared it, allocated the transfer Image and set the new image.
C11_Witness ==
  /\ call.op = "loadImage" /\ outcome = "ok"
  /\ before.image
  /\ Count("Clear") = 1 /\ Count("Image.new") = 1 /\ Count("SetImage") = 1
  /\ pix.present

\* C12: when loadImage returns, by any path, the transfer Image and the Pix
\* created for the call have been released; what is alive is the backend's
\* own copy, and no copy of the new image if the load failed.
C12_TransientBuffersReleased ==
  call.op = "loadImage"
    => /\ Alive(Len(log)) \subseteq {"previous", "copy"}
       /\ (outcome # "ok" \/ ~call.ok) => "copy" \notin Alive(Len(log))

\* C13: when the detector succeeds getOrientation returns confidence 1 and
\* the rotation of the decision table over d = |up_conf| - |left_conf|:
\* 0 if d > 5 and up_conf > 0, 180 if d > 5 and up_conf <= 0, 90 if d <= 5
\* and left_conf < 0, 270 otherwise; (10,0) gives 0, (-10,0) 180, (0,-10) 90,
\* (0,10) 270 and (1,1) 90 or 270.
C13_OrientationTable ==
  (call.op = "getOrientation" /\ outcome = "ok" /\ call.ok)
    => LET up == call.up_conf
           left == call.left_conf
           d == (IF up < 0 THEN -up ELSE up) - (IF left < 0 THEN -left ELSE left)
       IN /\ ret.confidence = 1
          /\ (d > 5 /\ up > 0) => ret.rotation = 0
          /\ (d > 5 /\ up <= 0) => ret.rotation = 180
          /\ (d <= 5 /\ left < 0) => ret.rotation = 90
          /\ (d <= 5 /\ left >= 0) => ret.rotation = 270
          /\ (up = 10 /\ left = 0) => ret.rotation = 0
          /\ (up = -10 /\ left = 0) => ret.rotation = 180
          /\ (up = 0 /\ left = -10) => ret.rotation = 90
          /\ (up = 0 /\ left = 10) => ret.rotation = 270
          /\ (up = 1 /\ left = 1) => ret.rotation \in {90, 270}

\* Witness of C13: a detection exactly at the margin, (6, 1), answered from
\* the 90/270 branch.
C13_Witness ==
  /\ call.op = "getOrientation" /\ outcome = "ok" /\ call.ok
  /\ call.up_conf = 6 /\ call.left_conf = 1
  /\ ret.rotation = 270 /\ ret.confidence = 1

\* C14: a getOrientation on which the detector fails, with an image in the
\* backend, does not throw and returns rotation 0 and confidence 0; the
\* thresholded Pix it obtained is destroyed; and it leaves the flags of both
\* classes and the backend's image, page result and run counts as they were,
\* so that a following query finds the state it would have found without it.
C14_DetectorFailureIsNoError ==
  [][(call'.op = "getOrientation" /\ before'.image /\ ~call'.ok)
       => /\ outcome' = "ok"
          /\ ret'.kind = "orientation"
          /\ ret'.rotation = 0 /\ ret'.confidence = 0
          /\ (Count("GetThresholdedImage") = 1)'
          /\ (Alive(Len(log)) = {"previous"})'
          /\ UNCHANGED <<modelLoaded, imageLoaded, layout_analysis_done_,
                         ocr_done_, pix, page_res, layoutRuns, recogRuns,
                         initialized>>]_vars

\* Witness of C14: a failed detection on a recognized image; the recognition
\* stays cached.
C14_Witness ==
  /\ call.op = "getOrientation" /\ outcome = "ok" /\ ~call.ok
  /\ before.image /\ before.ocr_done_
  /\ ret.rotation = 0 /\ ret.confidence = 0
  /\ Count("pixDestroy") = 1
  /\ ocr_done_ /\ page_res.kind = "ocr"

\* C15: a loadModel, successful or failed, in whatever state it is issued,
\* leaves imageLoaded, layout_analysis_done_ and ocr_done_ and the backend's
\* image and page result as they were; a text-producing query that follows
\* it with ocr_done_ true and succeeds does not run the recognizer.
C15_LoadModelKeepsCache ==
  [][/\ call'.op = "loadModel"
          => UNCHANGED <<imageLoaded, layout_analysis_done_, ocr_done_, pix,
                         page_res, layoutRuns, recogRuns>>
     /\ (call.op = "loadModel" /\ ocr_done_
         /\ call'.op \in TextQueries /\ outcome' = "ok")
          => (Count("Recognize") = 0 /\ ocr_done_ /\ recogRuns <= 1)']_vars

\* Witness of C15: a model loaded over a recognized image; the recognition
\* stays cached.
C15_Witness ==
  /\ call.op = "loadModel" /\ call.ok /\ outcome = "ok"
  /\ before.imageLoaded /\ before.image
  /\ before.layout_analysis_done_ /\ before.ocr_done_
  /\ imageLoaded /\ layout_analysis_done_ /\ ocr_done_
  /\ page_res.kind = "ocr" /\ recogRuns = 1

\* C16: with an image in the backend and no loadModel issued so far, a
\* getBoundingBoxes for words or lines succeeds: it needs no model, runs the
\* layout pass if layout_analysis_done_ was false, sets that flag, returns
\* boxes, runs no recognition and leaves ocr_done_ as it was; and once a
\* model and an image are loaded, in whichever order, a getTextBoxes for
\* words or lines succeeds.
C16_BoxesNeedNoModel ==
  /\ (call.op = "getBoundingBoxes" /\ call.unit \in {"word", "line"}
      /\ before.image /\ ~before.modelLoaded /\ ~before.model)
       => /\ outcome = "ok" /\ ret.kind = "boxes"
          /\ ~before.layout_analysis_done_ => Count("AnalyseLayout") = 1
          /\ layout_analysis_done_
          /\ Count("Recognize") = 0
          /\ ocr_done_ = before.ocr_done_
          /\ ~modelLoaded
  /\ (call.op = "getTextBoxes" /\ call.unit \in {"word", "line"}
      /\ before.image /\ before.model)
       => /\ outcome = "ok" /\ ret.kind = "boxes"
          /\ layout_analysis_done_ /\ ocr_done_

\* Witness of C16: the first getBoundingBoxes on a two-word image of an
\* engine that never saw a model.
C16_Witness ==
  /\ call.op = "getBoundingBoxes" /\ call.unit = "word" /\ outcome = "ok"
  /\ before.image /\ ~before.modelLoaded /\ ~before.model
  /\ ~before.layout_analysis_done_
  /\ Count("AnalyseLayout") = 1
  /\ layout_analysis_done_ /\ ~ocr_done_
  /\ Len(ret.boxes) = 2

\* The rects and flags of a list of boxes.
Geometry(boxes) ==
  [k \in 1..Len(boxes) |-> [rect |-> boxes[k].rect, flags |-> boxes[k].flags]]

\* C17: once recognition has run for the current image, a getBoundingBoxes
\* runs no layout pass, and for the same unit it and a getTextBoxes next to
\* it, in either order, return lists of the same length with the same rects
\* and flags.
C17_BoxesMatchTextBoxesAfterOcr ==
  [][/\ (call'.op = "getBoundingBoxes" /\ outcome' = "ok" /\ ocr_done_)
          => (Count("AnalyseLayout") = 0)'
     /\ (call.op = "getTextBoxes" /\ outcome = "ok"
         /\ call'.op = "getBoundingBoxes" /\ outcome' = "ok"
         /\ call'.unit = call.unit)
          => Geometry(ret'.boxes) = Geometry(ret.boxes)
     /\ (call.op = "getBoundingBoxes" /\ outcome = "ok" /\ before.ocr_done_
         /\ call'.op = "getTextBoxes" /\ outcome' = "ok"
         /\ call'.unit = call.unit)
          => Geometry(ret'.boxes) = Geometry(ret.boxes)]_vars

\* Witness of C17: a word-level getBoundingBoxes after recognition merged
\* the two words the layout pass would find into one; it returns the one.
C17_Witness ==
  /\ call.op = "getBoundingBoxes" /\ call.unit = "word" /\ outcome = "ok"
  /\ before.ocr_done_ /\ before.image
  /\ page_res.kind = "ocr"
  /\ pix.layout = <<2>> /\ pix.ocr = <<1>>
  /\ Count("AnalyseLayout") = 0
  /\ Len(ret.boxes) = 1
  /\ ret.boxes[1].flags = 3

\* C18: a getBoundingBoxes or getTextBoxes for a unit other than word or
\* line throws: InvalidUnitError when the image and model checks before it
\* pass, else the error of the check that fails. It returns nothing, calls
\* nothing on the backend (no layout pass, no recognition) and leaves
\* layout_analysis_done_ and ocr_done_ as they were.
C18_InvalidUnitRejected ==
  (call.op \in {"getBoundingBoxes", "getTextBoxes"}
   /\ call.unit \notin {"word", "line"})
    => /\ outcome \in {NoImageError, NoModelError, InvalidUnitError}
       /\ (before.imageLoaded
           /\ (call.op = "getTextBoxes" => before.modelLoaded))
            => outcome = InvalidUnitError
       /\ ret = NoRet
       /\ log = <<>>
       /\ layout_analysis_done_ = before.layout_analysis_done_
       /\ ocr_done_ = before.ocr_done_

\* Witness of C18: a getTextBoxes for symbols on an engine with model and
\* image and a cached layout.
C18_Witness ==
  /\ call.op = "getTextBoxes" /\ call.unit = "symbol"
  /\ before.imageLoaded /\ before.modelLoaded /\ before.image /\ before.model
  /\ before.layout_analysis_done_ /\ ~before.ocr_done_
  /\ outcome = InvalidUnitError
  /\ layout_analysis_done_ /\ ~ocr_done_

\* Whether a flag set holds the bit.
HasFlag(flags, bit) == (flags \div bit) % 2 = 1

\* The number of words in the first i lines.
WordsUpTo(lines, i) == Total(SubSeq(lines, 1, i))

\* C19: in a word-level result of getBoundingBoxes or getTextBoxes the items
\* flagged StartOfLine are exactly the first words of the text lines of the
\* page and the items flagged EndOfLine exactly the last words (the only
\* word of a line carries both, a line of two words gives one item of each);
\* in a line-level result every item has flags 0. Stated for calls that
\* find an image in the backend and, for getTextBoxes, a model.
C19_LineFlags ==
  (call.op \in {"getBoundingBoxes", "getTextBoxes"} /\ outcome = "ok"
   /\ before.image /\ (call.op = "getTextBoxes" => before.model))
    => LET lines == page_res.lines
           first == {WordsUpTo(lines, i - 1) + 1 : i \in 1..Len(lines)}
           last == {WordsUpTo(lines, i) : i \in 1..Len(lines)}
       IN IF call.unit = "word"
          THEN \A k \in 1..Len(ret.boxes) :
                 /\ HasFlag(ret.boxes[k].flags, StartOfLine) <=> k \in first
                 /\ HasFlag(ret.boxes[k].flags, EndOfLine) <=> k \in last
          ELSE \A k \in 1..Len(ret.boxes) : ret.boxes[k].flags = 0

\* C19 on pages with at least one word.
C19_LineFlagsOfWords ==
  page_res.lines # <<>> => C19_LineFlags

\* The region the k-th item of the last result was made at: the k-th region
\* of the page at the level of the call, the end of the page beyond them.
RegionOf(k) ==
  LET regions == Regions(page_res.lines,
                         iterator_level_from_unit(textUnitForUnit(call.unit)))
  IN IF k <= Len(regions) THEN regions[k] ELSE AtEnd

\* C20: every item a getTextBoxes returns has as confidence the percentage
\* the backend gives for the item's region, over 100, which is a number from
\* 0 to 1; every item a getBoundingBoxes returns has confidence 0 and an
\* empty text.
C20_ConfidenceScaled ==
  /\ (call.op = "getTextBoxes" /\ outcome = "ok")
       => \A k \in 1..Len(ret.boxes) :
            LET c == ret.boxes[k].confidence
            IN /\ c.den = 100
               /\ c.num = Confidence(RegionOf(k))
               /\ 0 <= c.num /\ c.num <= c.den
  /\ (call.op = "getBoundingBoxes" /\ outcome = "ok")
       => \A k \in 1..Len(ret.boxes) :
            /\ ret.boxes[k].confidence.num = 0
            /\ ret.boxes[k].text = <<>>

\* Witness of C20: a getTextBoxes for the two words of a line, scored 100 and
\* 0 by the backend, and returned with confidences 1 and 0.
C20_Witness ==
  /\ call.op = "getTextBoxes" /\ call.unit = "word" /\ outcome = "ok"
  /\ before.image /\ before.model
  /\ page_res.lines = <<2>>
  /\ Len(ret.boxes) = 2
  /\ ret.boxes[1].confidence = [num |-> 100, den |-> 100]
  /\ ret.boxes[2].confidence = [num |-> 0, den |-> 100]
  /\ ret.boxes[1].text # <<>>

\* C21: a getOrientation issued with imageLoaded true does not throw, leaves
\* imageLoaded, modelLoaded, layout_analysis_done_ and ocr_done_ as they were
\* and runs neither the layout pass nor the recognizer, also when neither has
\* run yet; a getBoundingBoxes that succeeds right after it with
\* layout_analysis_done_ false runs the layout pass exactly once.
C21_OrientationKeepsFlags ==
  [][/\ (call'.op = "getOrientation" /\ imageLoaded)
          => /\ outcome' = "ok" /\ ret'.kind = "orientation"
             /\ UNCHANGED <<imageLoaded, modelLoaded, layout_analysis_done_,
                            ocr_done_, layoutRuns, recogRuns>>
             /\ (Count("AnalyseLayout") = 0 /\ Count("Recognize") = 0)'
     /\ (call.op = "getOrientation" /\ outcome = "ok"
         /\ ~layout_analysis_done_
         /\ call'.op = "getBoundingBoxes" /\ outcome' = "ok")
          => (Count("AnalyseLayout") = 1 /\ layoutRuns = 1
              /\ layout_analysis_done_)']_vars

\* Witness of C21: a successful detection on an image for which neither the
\* layout pass nor the recognizer has run.
C21_Witness ==
  /\ call.op = "getOrientation" /\ outcome = "ok" /\ call.ok
  /\ before.imageLoaded /\ before.image
  /\ ~before.layout_analysis_done_ /\ ~before.ocr_done_
  /\ ~layout_analysis_done_ /\ ~ocr_done_
  /\ layoutRuns = 0 /\ recogRuns = 0
  /\ ret.confidence = 1

\* C22: a successful getBoundingBoxes or getTextBoxes returns one item per
\* region of the page at the level of the call, in the backend's order: as
\* many items as regions, the k-th with the rect of the k-th region, hence
\* no item for a page without regions or without page result; and it walks
\* an iterator of its own, obtained once. Stated for calls that find an
\* image in the backend and, for getTextBoxes, a model.
C22_OneItemPerRegion ==
  (call.op \in {"getBoundingBoxes", "getTextBoxes"} /\ outcome = "ok"
   /\ before.image /\ (call.op = "getTextBoxes" => before.model))
    => LET regions ==
             Regions(page_res.lines,
                     iterator_level_from_unit(textUnitForUnit(call.unit)))
       IN /\ Len(ret.boxes) = Len(regions)
          /\ \A k \in 1..Len(regions) :
               ret.boxes[k].rect = BoundingBox(page_res.lines, regions[k])
          /\ Count("GetIterator") = 1

\* C22 on pages with at least one word.
C22_OneItemPerRegionOfWords ==
  page_res.lines # <<>> => C22_OneItemPerRegion

\* The percentages the backend reported to the monitor during the last
\* operation.
Reported ==
  LET notes == SelectSeq(log, LAMBDA x : x.ev = "progress_handler")
  IN [k \in 1..Len(notes) |-> notes[k].val]

C24_FlagsNested ==
  /\ ocr_done_ => layout_analysis_done_
  /\ layout_analysis_done_ => imageLoaded

\* The first half of C24: ocr_done_ implies layout_analysis_done_.
C24_OcrImpliesLayout == ocr_done_ => layout_analysis_done_

====
